---- MODULE Spec2Model ----
(***************************************************************************)
(* liblog/logd_write.c: the client-side write path of the Android log      *)
(* library.  The module models                                             *)
(*   - the dispatcher (the function pointer write_to_log), the channel     *)
(*     registry log_fds and the lazy initialisation under log_init_lock,   *)
(*     run by several threads at statement granularity (every access of a  *)
(*     shared variable or of the transport is a step of its own);          *)
(*   - the transport (log_open / log_writev / log_close) as the file       *)
(*     descriptor table of the process, with nondeterministic outcomes;    *)
(*   - the text framing and the tag reroute of __android_log_write and     *)
(*     __android_log_buf_write as operators on C strings.                  *)
(* write_to_log and log_fds are plain variables that the entry points and  *)
(* __write_to_log_kernel read without the lock while the block of          *)
(* __write_to_log_init stores to them.  Each such read and store is one    *)
(* step, so a racing read yields the old or the new value as the steps     *)
(* interleave; the steps are taken in one global order.                    *)
(***************************************************************************)
EXTENDS Integers, Sequences, FiniteSets, TLC

\* ---------------------------------------------------------------- bounds
\* The most EINTR results one call's writev loop is given.
MaxEintr == 1

\* The threads of the process: the one that runs the initialisation and one
\* that races with it or waits for the lock.
Threads == {1, 2}

\* ------------------------------------------------------ program constants
LOG_ID_MAIN == 0
LOG_ID_RADIO == 1
LOG_ID_EVENTS == 2
LOG_ID_SYSTEM == 3
LOG_ID_MAX == 4
EBADF == 9
FirstFd == 3

Channels == LOG_ID_MAIN..(LOG_ID_MAX - 1)

\* The three values of the function pointer write_to_log.
FnInit == "__write_to_log_init"
FnKernel == "__write_to_log_kernel"
FnNull == "__write_to_log_null"

VARIABLES
    write_to_log,   \* the dispatcher: which function the pointer names
    log_init_lock,  \* 0 when free, else the thread holding the mutex
    log_fds,        \* the registry: channel -> descriptor or -1
    openFds,        \* transport: the descriptors that are open
    nextFd,         \* transport: the descriptor the next open() returns
    opens,          \* transport: channel -> number of open() calls made
    handle,         \* transport: channel -> what its last open() returned
    closeCalls,     \* transport: the arguments of the close() calls, in order
    pc,             \* thread -> position in the code
    req,            \* thread -> the request of its current (or last) call
    fn,             \* thread -> the function it last read from write_to_log
    log_fd,         \* thread -> local log_fd of __write_to_log_kernel
    eintr,          \* thread -> EINTR results of the current writev loop
    ret,            \* thread -> status returned by its last call
    entry,          \* thread -> what its call found when it started: the
                    \* pointer it read, and whether initialisation had ended
    tops,           \* thread -> transport calls it made in the current call
    oob,            \* thread -> its call read log_fds outside its bounds
    wr,             \* thread -> its last log_writev: descriptor, was it open,
                    \* how many it made in this call, result, arguments
    txt_in,         \* text path: the arguments of the call
    txt_out,        \* text path: what the call handed to write_to_log
    aborted,        \* the process has run into __builtin_trap()
    g_log_status,   \* the cached answer of __android_log_dev_available
    dev_writable,   \* environment: access("/dev/log/main", W_OK) succeeds
    returned_vals,  \* the values __android_log_dev_available has returned
    av              \* thread -> its call of __android_log_dev_available

vars == <<write_to_log, log_init_lock, log_fds, openFds, nextFd, opens,
          closeCalls, handle, pc, req, fn, log_fd, eintr, ret, entry,
          tops,
          oob, wr, txt_in, txt_out, aborted,
          g_log_status, dev_writable, returned_vals, av>>

shared == <<write_to_log, log_init_lock, log_fds>>
transport == <<openFds, nextFd, opens, closeCalls, handle>>
textvars == <<txt_in, txt_out>>
availvars == <<g_log_status, dev_writable, returned_vals, av>>
sidevars == <<textvars, aborted, availvars>>
locals == <<req, fn, log_fd, eintr, ret, entry, oob, wr>>
dispvars == <<shared, transport, pc, locals, tops, textvars, aborted>>

\* ------------------------------------------------------------ C strings
\* A byte of a string is a one-character string; NUL is the terminator.
\* A C string in memory is the sequence of its bytes up to and including
\* the first NUL (bytes after it belong to the buffer, not to the string).
\* The null pointer is the empty sequence: it holds no byte at all.
NUL == "NUL"
GARBAGE == "?"
NULLPTR == <<>>

CStr(chars) == chars \o <<NUL>>

Min(a, b) == IF a < b THEN a ELSE b

\* strlen: the number of bytes before the first NUL.
strlen(m) ==
    (CHOOSE i \in 1..Len(m) : m[i] = NUL /\ \A j \in 1..(i - 1) : m[j] # NUL) - 1

\* strcmp(a, b) == 0: the bytes agree up to and including the first NUL.
StrCmpEq(a, b) ==
    /\ strlen(a) = strlen(b)
    /\ \A i \in 1..strlen(a) : a[i] = b[i]

\* strncmp(a, b, n) == 0: the first n bytes agree, the comparison stopping
\* early after a NUL of a.
StrNCmpEq(a, b, n) ==
    \A i \in 1..n :
        (\A j \in 1..(i - 1) : a[j] # NUL) => (i <= Len(b) /\ a[i] = b[i])

\* snprintf without the cap of size-1 bytes, as sprintf renders.
snprintfUncapped(size, prefix, s) ==
    prefix \o SubSeq(s, 1, strlen(s)) \o <<NUL>>

\* snprintf(buf, size, "<prefix>%s", s): at most size-1 bytes of the
\* rendered text, then a NUL; the rest of the buffer is left as it was.
snprintf(size, prefix, s) ==
    LET full == prefix \o SubSeq(s, 1, strlen(s))
        k == Min(Len(full), size - 1)
    IN  SubSeq(full, 1, k) \o <<NUL>> \o [i \in 1..(size - k - 1) |-> GARBAGE]

\* The bytes an iovec {base, len} covers.
IoVec(base, len) == SubSeq(base, 1, len)

\* (unsigned char *) &prio with iov_len 1: the low byte of the int.
PrioByte(prio) == prio % 256

TMP_TAG_SIZE == 32

S_HTC_RIL == <<"H", "T", "C", "_", "R", "I", "L">>
S_RIL == <<"R", "I", "L">>
S_IMS == <<"I", "M", "S">>
S_AT == <<"A", "T">>
S_GSM == <<"G", "S", "M">>
S_STK == <<"S", "T", "K">>
S_CDMA == <<"C", "D", "M", "A">>
S_PHONE == <<"P", "H", "O", "N", "E">>
S_SMS == <<"S", "M", "S">>
S_KINETO == <<"K", "I", "N", "E", "T", "O">>
S_KIPC == <<"K", "I", "P", "C">>
S_Kineto_lc == <<"K", "i", "n", "e", "t", "o">>
S_QCRIL == <<"Q", "C", "R", "I", "L">>
S_QC_RIL == <<"Q", "C", "-", "R", "I", "L">>
S_QC_QMI == <<"Q", "C", "-", "Q", "M", "I">>
S_QC_ONCRPC == <<"Q", "C", "-", "O", "N", "C", "R", "P", "C">>
S_QC_DSI == <<"Q", "C", "-", "D", "S", "I">>
S_QC_NETMGR_LIB == <<"Q", "C", "-", "N", "E", "T", "M", "G", "R", "-", "L", "I", "B">>
S_QC_QDP == <<"Q", "C", "-", "Q", "D", "P">>
S_Diag_Lib == <<"D", "i", "a", "g", "_", "L", "i", "b">>
S_MARKER == <<"u", "s", "e", "-", "R", "l", "o", "g", "/", "R", "L", "O", "G", "-">>

\* The condition of __android_log_buf_write's reroute, without bufID.
BufWriteTagMatch(tag) ==
    \/ StrCmpEq(tag, CStr(S_HTC_RIL))
    \/ StrNCmpEq(tag, CStr(S_RIL), 3)
    \/ StrNCmpEq(tag, CStr(S_IMS), 3)
    \/ StrCmpEq(tag, CStr(S_AT))
    \/ StrCmpEq(tag, CStr(S_GSM))
    \/ StrCmpEq(tag, CStr(S_STK))
    \/ StrCmpEq(tag, CStr(S_CDMA))
    \/ StrCmpEq(tag, CStr(S_PHONE))
    \/ StrCmpEq(tag, CStr(S_SMS))
    \/ StrCmpEq(tag, CStr(S_KINETO))
    \/ StrNCmpEq(tag, CStr(S_KIPC), 4)
    \/ StrNCmpEq(tag, CStr(S_Kineto_lc), 6)
    \/ StrNCmpEq(tag, CStr(S_QCRIL), 5)
    \/ StrNCmpEq(tag, CStr(S_QC_RIL), 6)
    \/ StrNCmpEq(tag, CStr(S_QC_QMI), 6)
    \/ StrNCmpEq(tag, CStr(S_QC_ONCRPC), 9)
    \/ StrNCmpEq(tag, CStr(S_QC_DSI), 6)

\* The condition of __android_log_write's reroute.
WriteTagMatch(tag) ==
    \/ BufWriteTagMatch(tag)
    \/ StrCmpEq(tag, CStr(S_QC_NETMGR_LIB))
    \/ StrCmpEq(tag, CStr(S_QC_QDP))
    \/ StrCmpEq(tag, CStr(S_Diag_Lib))

\* TextVec with iov_len = strlen(...), the terminators left out.
TextVecNoTerminator(prio, tag, msg) ==
    << <<PrioByte(prio)>>,
       IoVec(tag, strlen(tag)),
       IoVec(msg, strlen(msg)) >>

\* The three iovecs both text entry points build.
TextVec(prio, tag, msg) ==
    << <<PrioByte(prio)>>,
       IoVec(tag, strlen(tag) + 1),
       IoVec(msg, strlen(msg) + 1) >>

\* __android_log_write up to its call of write_to_log: the channel and the
\* iovecs it hands over.
AndroidLogWrite(prio, tag, msg) ==
    LET tag1 == IF tag = NULLPTR THEN CStr(<<>>) ELSE tag
        hit == WriteTagMatch(tag1)
        tmp_tag == snprintf(TMP_TAG_SIZE, S_MARKER, tag1)
        tag2 == IF hit THEN tmp_tag ELSE tag1
    IN  [log_id |-> IF hit THEN LOG_ID_RADIO ELSE LOG_ID_MAIN,
         vec |-> TextVec(prio, tag2, msg)]

\* __android_log_buf_write up to its call of write_to_log.
AndroidLogBufWrite(bufID, prio, tag, msg) ==
    LET tag1 == IF tag = NULLPTR THEN CStr(<<>>) ELSE tag
        hit == bufID # LOG_ID_RADIO /\ BufWriteTagMatch(tag1)
        tmp_tag == snprintf(TMP_TAG_SIZE, S_MARKER, tag1)
        tag2 == IF hit THEN tmp_tag ELSE tag1
    IN  [log_id |-> IF hit THEN LOG_ID_RADIO ELSE bufID,
         vec |-> TextVec(prio, tag2, msg)]

\* The size of the buffer the formatting entry points render into.
LOG_BUF_SIZE == 1024

ANDROID_LOG_FATAL == 7

S_ASSERTION_FAILED ==
    <<"A", "s", "s", "e", "r", "t", "i", "o", "n", " ", "f", "a", "i",
    "l", "e", "d", ":", " ">>
S_UNSPECIFIED ==
    <<"U", "n", "s", "p", "e", "c", "i", "f", "i", "e", "d", " ", "a",
    "s", "s", "e", "r", "t", "i", "o", "n", " ", "f", "a", "i", "l", "e",
    "d">>

\* strcpy(buf, s) into a buffer of size bytes: the string with its NUL, the
\* rest of the buffer left as it was.
strcpy(size, s) ==
    SubSeq(s, 1, strlen(s) + 1) \o [i \in 1..(size - strlen(s) - 1) |-> GARBAGE]

\* The message with the condition tested before the format.
AndroidLogAssertBufCondFirst(cond, fmt) ==
    IF cond # NULLPTR
    THEN snprintf(LOG_BUF_SIZE, S_ASSERTION_FAILED, cond)
    ELSE IF fmt # NULLPTR
         THEN snprintf(LOG_BUF_SIZE, <<>>, fmt)
         ELSE strcpy(LOG_BUF_SIZE, CStr(S_UNSPECIFIED))

\* The message buf of __android_log_assert.  The argument fmt stands for
\* the format together with its arguments: it is the text the format
\* renders to, which vsnprintf cuts to the buffer as snprintf does.
AndroidLogAssertBuf(cond, fmt) ==
    IF fmt # NULLPTR
    THEN snprintf(LOG_BUF_SIZE, <<>>, fmt)
    ELSE IF cond # NULLPTR
         THEN snprintf(LOG_BUF_SIZE, S_ASSERTION_FAILED, cond)
         ELSE strcpy(LOG_BUF_SIZE, CStr(S_UNSPECIFIED))

\* __android_log_assert up to the call of write_to_log it makes through
\* __android_log_write.
AndroidLogAssert(cond, tag, fmt) ==
    AndroidLogWrite(ANDROID_LOG_FATAL, tag, AndroidLogAssertBuf(cond, fmt))

\* int32_t tag with iov_len sizeof(tag): its four bytes, low byte first.
Int32Bytes(v) == [i \in 1..4 |-> (v \div (256 ^ (i - 1))) % 256]

\* __android_log_bwrite up to its call of write_to_log.
AndroidLogBwrite(tag, payload, len) ==
    [log_id |-> LOG_ID_EVENTS,
     vec |-> << Int32Bytes(tag), IoVec(payload, len) >>]

\* __android_log_btwrite up to its call of write_to_log.
AndroidLogBtwrite(tag, type, payload, len) ==
    [log_id |-> LOG_ID_EVENTS,
     vec |-> << Int32Bytes(tag), <<type>>, IoVec(payload, len) >>]

\* ------------------------------------------------------------ transport
\* The handle log_open returns when it fails, and log_fds' initial entry.
Unopened == -1

\* Total number of bytes of a list of iovecs: what log_writev returns on
\* success.
RECURSIVE TotalLen(_)
TotalLen(vec) ==
    IF vec = <<>> THEN 0 ELSE Len(Head(vec)) + TotalLen(Tail(vec))

\* The results log_writev(fd, vec, nr) can have: a closed or invalid
\* descriptor fails with EBADF; an open one accepts the record, is
\* interrupted by a signal, or fails for another reason.
WritevOutcomes(fd, vec) ==
    IF fd \in openFds
    THEN { [ret |-> TotalLen(vec), errno |-> "none"],
           [ret |-> -1, errno |-> "EINTR"],
           [ret |-> -1, errno |-> "EIO"] }
    ELSE { [ret |-> -1, errno |-> "EBADF"] }

\* What a read of log_fds[-1] can yield: the word before the array is not
\* part of it, so the value is any descriptor, valid or not.
OobValues == {Unopened, FirstFd}

\* ----------------------------------------------------------- dispatcher
\* The statement a thread is at when it has just called through the
\* pointer value f.
Entry(f) ==
    CASE f = FnInit -> "init_lock"
      [] f = FnKernel -> "kernel_check"
      [] f = FnNull -> "null_ret"

\* The statements of the initialisation block, lines 218-238.
BlockPcs == {"open_main", "open_radio", "open_events", "open_system",
             "set_kernel", "init_cond", "close_main", "close_radio",
             "close_events", "reset_main", "reset_radio", "reset_events",
             "set_null", "sys_check"}

\* The initialisation block has run to its end.
InitComplete ==
    /\ write_to_log # FnInit
    /\ \A t \in Threads : pc[t] \notin BlockPcs

Goto(t, p) == pc' = [pc EXCEPT ![t] = p]

\* Thread t is at statement p, in a process that has not trapped: once it
\* has, no thread takes another step.
At(t, p) == ~aborted /\ pc[t] = p

\* A public entry point has built its request r and calls write_to_log:
\* the lock-free read of the pointer (lines 292, 336, 407, 427).
StartCall(t, op, r) ==
    /\ At(t, "idle")
    /\ req' = [req EXCEPT ![t] = [op |-> op, log_id |-> r.log_id, vec |-> r.vec]]
    /\ fn' = [fn EXCEPT ![t] = write_to_log]
    /\ Goto(t, Entry(write_to_log))
    /\ entry' = [entry EXCEPT ![t] = [fn |-> write_to_log, done |-> InitComplete]]
    /\ UNCHANGED <<shared, transport, log_fd, eintr, ret, tops, oob, wr,
                   sidevars>>

\* The function returns v to the public entry point, which returns it.
Return(t, v) ==
    /\ ret' = [ret EXCEPT ![t] = v]
    /\ Goto(t, "returned")

\* The locals of a thread that is in no call.
NoReq == [op |-> "none", log_id |-> 0, vec |-> <<>>]
NoWr == [fd |-> Unopened, open |-> FALSE, n |-> 0, res |-> 0,
         errno |-> "none", vec |-> <<>>, same |-> TRUE]
NoEntry == [fn |-> FnInit, done |-> FALSE]

\* The caller has taken the status of its call; the thread is ready for
\* its next call.
Finish(t) ==
    /\ At(t, "returned")
    /\ req[t].op # "assert"
    /\ Goto(t, "idle")
    /\ req' = [req EXCEPT ![t] = NoReq]
    /\ fn' = [fn EXCEPT ![t] = FnInit]
    /\ log_fd' = [log_fd EXCEPT ![t] = Unopened]
    /\ eintr' = [eintr EXCEPT ![t] = 0]
    /\ ret' = [ret EXCEPT ![t] = 0]
    /\ entry' = [entry EXCEPT ![t] = NoEntry]
    /\ tops' = [tops EXCEPT ![t] = 0]
    /\ oob' = [oob EXCEPT ![t] = FALSE]
    /\ wr' = [wr EXCEPT ![t] = NoWr]
    /\ UNCHANGED <<shared, transport, sidevars>>

\* The trap taken only when the write has succeeded: after a failed write
\* the function hands the status on and returns.
TrapUnlessWriteFailed(t) ==
    /\ At(t, "returned")
    /\ req[t].op = "assert"
    /\ IF ret[t] < 0
       THEN Goto(t, "idle") /\ UNCHANGED aborted
       ELSE Goto(t, "trapped") /\ aborted' = TRUE
    /\ UNCHANGED <<shared, transport, locals, tops, textvars, availvars>>

\* __builtin_trap() of __android_log_assert, line 395: __android_log_write
\* has returned its status, which is dropped, and the process ends
\* abnormally; no thread of it takes another step.
Trap(t) ==
    /\ At(t, "returned")
    /\ req[t].op = "assert"
    /\ Goto(t, "trapped")
    /\ aborted' = TRUE
    /\ UNCHANGED <<shared, transport, locals, tops, textvars, availvars>>

\* Inputs of the calls the threads make.
CallPrios == {4}
CondX == CStr(<<"x", ">", "0">>)
TagX == CStr(<<"X">>)
MsgHello == CStr(<<"h", "e", "l", "l", "o">>)
CallChannels == {-1, LOG_ID_SYSTEM, LOG_ID_MAX}
CallTags == {TagX, CStr(S_RIL)}
EventPayload == <<1, 2>>

CallWrite(t) ==
    \E prio \in CallPrios, tag \in CallTags :
        StartCall(t, "write", AndroidLogWrite(prio, tag, MsgHello))

CallBufWrite(t) ==
    \E bufID \in CallChannels, prio \in CallPrios :
        StartCall(t, "buf_write",
                  AndroidLogBufWrite(bufID, prio, TagX, MsgHello))

CallBwrite(t) ==
    StartCall(t, "bwrite", AndroidLogBwrite(7, EventPayload, 2))

CallBtwrite(t) ==
    StartCall(t, "btwrite", AndroidLogBtwrite(7, 0, EventPayload, 2))

\* __android_log_assert(cond, tag, fmt) with no format, lines 372-393.
CallAssert(t) ==
    StartCall(t, "assert", AndroidLogAssert(CondX, TagX, NULLPTR))

\* WriteToLogNull returning 0, the status of a write that went through.
WriteToLogNullOk(t) ==
    /\ At(t, "null_ret")
    /\ Return(t, 0)
    /\ UNCHANGED <<shared, transport, req, fn, log_fd, eintr, entry, tops,
                   oob, wr, sidevars>>

\* __write_to_log_null, line 190.
WriteToLogNull(t) ==
    /\ At(t, "null_ret")
    /\ Return(t, -1)
    /\ UNCHANGED <<shared, transport, req, fn, log_fd, eintr, entry, tops,
                   oob, wr, sidevars>>

\* __write_to_log_kernel, lines 198-202: the range check and the read of
\* the registry.
KernelCheck(t) ==
    /\ At(t, "kernel_check")
    /\ IF req[t].log_id < LOG_ID_MAX
       THEN /\ IF req[t].log_id >= 0
               THEN /\ log_fd' = [log_fd EXCEPT ![t] = log_fds[req[t].log_id]]
                    /\ UNCHANGED oob
               ELSE /\ \E v \in OobValues : log_fd' = [log_fd EXCEPT ![t] = v]
                    /\ oob' = [oob EXCEPT ![t] = TRUE]
            /\ Goto(t, "kernel_writev")
            /\ UNCHANGED ret
       ELSE /\ Return(t, EBADF)
            /\ UNCHANGED <<log_fd, oob>>
    /\ UNCHANGED <<shared, transport, req, fn, eintr, entry, tops, wr,
                   sidevars>>

\* The loop left after any result, an interrupted one included.
LoopAgainNever(o) == FALSE

\* while (ret < 0 && errno == EINTR), line 206.
LoopAgain(o) == o.ret < 0 /\ o.errno = "EINTR"

\* log_writev given the first iovec only.
WritevArgsFirstSegment(t) == [fd |-> log_fd[t], vec |-> <<Head(req[t].vec)>>]

\* The arguments of log_writev(log_fd, vec, nr), line 205.
WritevArgs(t) == [fd |-> log_fd[t], vec |-> req[t].vec]

\* __write_to_log_kernel, lines 204-208: one turn of the do-while loop.
KernelWritev(t) ==
    /\ At(t, "kernel_writev")
    /\ LET a == WritevArgs(t)
       IN  \E o \in WritevOutcomes(a.fd, a.vec) :
              /\ o.errno = "EINTR" => eintr[t] < MaxEintr
              /\ IF LoopAgain(o)
                 THEN /\ eintr' = [eintr EXCEPT ![t] = @ + 1]
                      /\ UNCHANGED <<pc, ret>>
                 ELSE /\ Return(t, o.ret)
                      /\ UNCHANGED eintr
              /\ wr' = [wr EXCEPT ![t] =
                           [fd |-> a.fd,
                            open |-> a.fd \in openFds,
                            n |-> @.n + 1,
                            res |-> o.ret,
                            errno |-> o.errno,
                            vec |-> a.vec,
                            same |-> \/ @.n = 0
                                     \/ @.same /\ @.fd = a.fd /\ @.vec = a.vec]]
    /\ tops' = [tops EXCEPT ![t] = @ + 1]
    /\ UNCHANGED <<shared, transport, req, fn, log_fd, entry, oob, sidevars>>

\* ------------------------------------------------- __write_to_log_init

\* Line 214: pthread_mutex_lock.
InitLock(t) ==
    /\ At(t, "init_lock")
    /\ log_init_lock = 0
    /\ log_init_lock' = t
    /\ Goto(t, "init_check")
    /\ UNCHANGED <<write_to_log, log_fds, transport, locals, tops, sidevars>>

\* InitCheck without the re-check: every thread that takes the lock runs
\* the block.
InitCheckNoRecheck(t) ==
    /\ At(t, "init_check")
    /\ Goto(t, "open_main")
    /\ UNCHANGED <<shared, transport, locals, tops, sidevars>>

\* Line 217: the re-check of the pointer under the lock.
InitCheck(t) ==
    /\ At(t, "init_check")
    /\ Goto(t, IF write_to_log = FnInit THEN "open_main" ELSE "init_unlock")
    /\ UNCHANGED <<shared, transport, locals, tops, sidevars>>

\* Lines 218-221: log_fds[c] = log_open(...), which may fail.
InitOpen(t, c, from, to) ==
    /\ At(t, from)
    /\ \E ok \in BOOLEAN :
          /\ log_fds' = [log_fds EXCEPT ![c] = IF ok THEN nextFd ELSE Unopened]
          /\ openFds' = IF ok THEN openFds \cup {nextFd} ELSE openFds
          /\ nextFd' = IF ok THEN nextFd + 1 ELSE nextFd
    /\ opens' = [opens EXCEPT ![c] = @ + 1]
    /\ handle' = [handle EXCEPT ![c] = log_fds'[c]]
    /\ tops' = [tops EXCEPT ![t] = @ + 1]
    /\ Goto(t, to)
    /\ UNCHANGED <<write_to_log, log_init_lock, closeCalls, locals, sidevars>>

OpenMain(t) == InitOpen(t, LOG_ID_MAIN, "open_main", "open_radio")
OpenRadio(t) == InitOpen(t, LOG_ID_RADIO, "open_radio", "open_events")
OpenEvents(t) == InitOpen(t, LOG_ID_EVENTS, "open_events", "open_system")
OpenSystem(t) == InitOpen(t, LOG_ID_SYSTEM, "open_system", "set_kernel")

\* Line 223: write_to_log = __write_to_log_kernel.
SetKernel(t) ==
    /\ At(t, "set_kernel")
    /\ write_to_log' = FnKernel
    /\ Goto(t, "init_cond")
    /\ UNCHANGED <<log_init_lock, log_fds, transport, locals, tops, sidevars>>

\* OpenFailed without the test of Events.
OpenFailedNoEvents ==
    \/ log_fds[LOG_ID_MAIN] < 0
    \/ log_fds[LOG_ID_RADIO] < 0

\* Lines 225-226: did Main, Radio or Events fail to open?
OpenFailed ==
    \/ log_fds[LOG_ID_MAIN] < 0
    \/ log_fds[LOG_ID_RADIO] < 0
    \/ log_fds[LOG_ID_EVENTS] < 0

InitCond(t) ==
    /\ At(t, "init_cond")
    /\ Goto(t, IF OpenFailed THEN "close_main" ELSE "sys_check")
    /\ UNCHANGED <<shared, transport, locals, tops, sidevars>>

\* Lines 227-229: log_close(log_fds[c]), whatever the entry holds.
InitClose(t, c, from, to) ==
    /\ At(t, from)
    /\ closeCalls' = Append(closeCalls, log_fds[c])
    /\ openFds' = openFds \ {log_fds[c]}
    /\ tops' = [tops EXCEPT ![t] = @ + 1]
    /\ Goto(t, to)
    /\ UNCHANGED <<shared, nextFd, opens, handle, locals, sidevars>>

CloseMain(t) == InitClose(t, LOG_ID_MAIN, "close_main", "close_radio")
CloseRadio(t) == InitClose(t, LOG_ID_RADIO, "close_radio", "close_events")
CloseEvents(t) == InitClose(t, LOG_ID_EVENTS, "close_events", "reset_main")

\* Lines 230-232: log_fds[c] = -1.
InitReset(t, c, from, to) ==
    /\ At(t, from)
    /\ log_fds' = [log_fds EXCEPT ![c] = Unopened]
    /\ Goto(t, to)
    /\ UNCHANGED <<write_to_log, log_init_lock, transport, locals, tops,
                   sidevars>>

ResetMain(t) == InitReset(t, LOG_ID_MAIN, "reset_main", "reset_radio")
ResetRadio(t) == InitReset(t, LOG_ID_RADIO, "reset_radio", "reset_events")
ResetEvents(t) == InitReset(t, LOG_ID_EVENTS, "reset_events", "set_null")

\* Line 233: write_to_log = __write_to_log_null.
SetNull(t) ==
    /\ At(t, "set_null")
    /\ write_to_log' = FnNull
    /\ Goto(t, "sys_check")
    /\ UNCHANGED <<log_init_lock, log_fds, transport, locals, tops, sidevars>>

\* SysCheck without the fallback: System's entry stays as open() left it.
SysCheckNoAlias(t) ==
    /\ At(t, "sys_check")
    /\ Goto(t, "init_unlock")
    /\ UNCHANGED <<shared, transport, locals, tops, sidevars>>

\* Lines 236-238: System falls back to Main's entry.
SysCheck(t) ==
    /\ At(t, "sys_check")
    /\ log_fds' = IF log_fds[LOG_ID_SYSTEM] < 0
                  THEN [log_fds EXCEPT ![LOG_ID_SYSTEM] = log_fds[LOG_ID_MAIN]]
                  ELSE log_fds
    /\ Goto(t, "init_unlock")
    /\ UNCHANGED <<write_to_log, log_init_lock, transport, locals, tops,
                   sidevars>>

\* The unlock left out on the path of a failed initialisation.
InitUnlockOnSuccess(t) ==
    /\ At(t, "init_unlock")
    /\ log_init_lock' = IF write_to_log = FnNull THEN log_init_lock ELSE 0
    /\ Goto(t, "init_call")
    /\ UNCHANGED <<write_to_log, log_fds, transport, locals, tops, sidevars>>

\* Line 242: pthread_mutex_unlock.
InitUnlock(t) ==
    /\ At(t, "init_unlock")
    /\ log_init_lock' = 0
    /\ Goto(t, "init_call")
    /\ UNCHANGED <<write_to_log, log_fds, transport, locals, tops, sidevars>>

\* Line 245: return write_to_log(log_id, vec, nr), a second read of the
\* pointer, made after the lock is released.
InitCall(t) ==
    /\ At(t, "init_call")
    /\ fn' = [fn EXCEPT ![t] = write_to_log]
    /\ Goto(t, Entry(write_to_log))
    /\ UNCHANGED <<shared, transport, req, log_fd, eintr, ret, entry,
                   tops, oob, wr, sidevars>>

\* ------------------------------------------------------- specification
NoIn == [op |-> "none", bufID |-> 0, prio |-> 0, tag |-> NULLPTR, msg |-> NULLPTR]
NoOut == [log_id |-> 0, vec |-> <<>>]

\* A thread that is in no call of __android_log_dev_available.
NoAv == [pc |-> "idle", res |-> FALSE, ret |-> 0, prior |-> {},
         probed |-> FALSE]

InitProcess ==
    /\ write_to_log = FnInit
    /\ log_init_lock = 0
    /\ log_fds = [c \in Channels |-> Unopened]
    /\ openFds = {}
    /\ nextFd = FirstFd
    /\ opens = [c \in Channels |-> 0]
    /\ handle = [c \in Channels |-> Unopened]
    /\ closeCalls = <<>>
    /\ pc = [t \in Threads |-> "idle"]
    /\ req = [t \in Threads |-> NoReq]
    /\ fn = [t \in Threads |-> FnInit]
    /\ log_fd = [t \in Threads |-> Unopened]
    /\ eintr = [t \in Threads |-> 0]
    /\ ret = [t \in Threads |-> 0]
    /\ entry = [t \in Threads |-> NoEntry]
    /\ tops = [t \in Threads |-> 0]
    /\ oob = [t \in Threads |-> FALSE]
    /\ wr = [t \in Threads |-> NoWr]
    /\ aborted = FALSE
    /\ g_log_status = "kLogUninitialized"
    /\ returned_vals = {}
    /\ av = [t \in Threads |-> NoAv]

Init ==
    /\ InitProcess
    /\ txt_in = NoIn
    /\ txt_out = NoOut
    /\ dev_writable = TRUE

Next ==
    \E t \in Threads :
        \/ CallWrite(t)
        \/ CallBufWrite(t)
        \/ CallBwrite(t)
        \/ CallBtwrite(t)
        \/ WriteToLogNull(t)
        \/ KernelCheck(t)
        \/ KernelWritev(t)
        \/ InitLock(t)
        \/ InitCheck(t)
        \/ OpenMain(t)
        \/ OpenRadio(t)
        \/ OpenEvents(t)
        \/ OpenSystem(t)
        \/ SetKernel(t)
        \/ InitCond(t)
        \/ CloseMain(t)
        \/ CloseRadio(t)
        \/ CloseEvents(t)
        \/ ResetMain(t)
        \/ ResetRadio(t)
        \/ ResetEvents(t)
        \/ SetNull(t)
        \/ SysCheck(t)
        \/ InitUnlock(t)
        \/ InitCall(t)
        \/ Finish(t)
        \/ CallAssert(t)
        \/ Trap(t)

Spec == Init /\ [][Next]_vars

\* ------------------------------------------- the text path on its own
\* The arguments the text entry points are applied to: every name and
\* prefix the two reroute conditions list, each as it is, one byte short,
\* and followed by 1..MaxPad more bytes (which takes the rendered tag past
\* the 32 bytes of tmp_tag), besides the absent and the empty tag.
MaxPad == 16

Pad(n) == [i \in 1..n |-> "x"]

Literals == {S_HTC_RIL, S_RIL, S_IMS, S_AT, S_GSM, S_STK, S_CDMA, S_PHONE,
             S_SMS, S_KINETO, S_KIPC, S_Kineto_lc, S_QCRIL, S_QC_RIL,
             S_QC_QMI, S_QC_ONCRPC, S_QC_DSI, S_QC_NETMGR_LIB, S_QC_QDP,
             S_Diag_Lib}

TextTags ==
    {NULLPTR, CStr(<<>>), TagX, CStr(Pad(TMP_TAG_SIZE + MaxPad))}
    \cup {CStr(l \o Pad(n)) : l \in Literals, n \in 0..MaxPad}
    \cup {CStr(SubSeq(l, 1, Len(l) - 1)) : l \in Literals}

TextMsgs == {CStr(<<>>), MsgHello, CStr(Pad(TMP_TAG_SIZE + MaxPad))}

TextPrios == CallPrios \cup {7}

TextInputs ==
    [op : {"write"}, bufID : {LOG_ID_MAIN}, prio : TextPrios,
     tag : TextTags, msg : TextMsgs]
    \cup [op : {"buf_write"}, bufID : (-1)..LOG_ID_MAX, prio : TextPrios,
          tag : TextTags, msg : TextMsgs]

InitText ==
    /\ InitProcess
    /\ dev_writable = TRUE
    /\ txt_in \in TextInputs
    /\ txt_out = NoOut

\* __android_log_write(prio, tag, msg), lines 248-292.
TextWrite ==
    /\ txt_in.op = "write"
    /\ txt_out = NoOut
    /\ txt_out' = AndroidLogWrite(txt_in.prio, txt_in.tag, txt_in.msg)
    /\ UNCHANGED <<shared, transport, pc, locals, tops, txt_in, aborted,
                   availvars>>

\* __android_log_buf_write(bufID, prio, tag, msg), lines 295-336.
TextBufWrite ==
    /\ txt_in.op = "buf_write"
    /\ txt_out = NoOut
    /\ txt_out' = AndroidLogBufWrite(txt_in.bufID, txt_in.prio, txt_in.tag,
                                     txt_in.msg)
    /\ UNCHANGED <<shared, transport, pc, locals, tops, txt_in, aborted,
                   availvars>>

NextText == TextWrite \/ TextBufWrite

SpecText == InitText /\ [][NextText]_vars

\* ------------------------------------- the assertion message on its own
\* The arguments __android_log_assert is applied to: the condition and the
\* format each absent, empty, short, and long enough to reach or pass the
\* end of buf.
AssertConds ==
    {NULLPTR, CStr(<<>>), CondX,
     CStr(Pad(LOG_BUF_SIZE - 1 - Len(S_ASSERTION_FAILED))),
     CStr(Pad(LOG_BUF_SIZE - Len(S_ASSERTION_FAILED))),
     CStr(Pad(LOG_BUF_SIZE + MaxPad))}

AssertFmts ==
    {NULLPTR, CStr(<<>>), MsgHello, CStr(Pad(LOG_BUF_SIZE - 1)),
     CStr(Pad(LOG_BUF_SIZE + MaxPad))}

AssertTags == {NULLPTR, TagX, CStr(S_RIL), CStr(S_Diag_Lib)}

AssertInputs ==
    [op : {"assert"}, cond : AssertConds, tag : AssertTags, fmt : AssertFmts]

InitAssert ==
    /\ InitProcess
    /\ dev_writable = TRUE
    /\ txt_in \in AssertInputs
    /\ txt_out = NoOut

\* __android_log_assert(cond, tag, fmt, ...), lines 372-393.
TextAssert ==
    /\ txt_in.op = "assert"
    /\ txt_out = NoOut
    /\ txt_out' = AndroidLogAssert(txt_in.cond, txt_in.tag, txt_in.fmt)
    /\ UNCHANGED <<shared, transport, pc, locals, tops, txt_in, aborted,
                   availvars>>

NextAssert == TextAssert

SpecAssert == InitAssert /\ [][NextAssert]_vars

\* ------------------------------------ __android_log_dev_available alone
\* The function has no lock: the test of g_log_status, the probe, the store
\* and the read of the return statement are steps of their own, and the
\* device can become writable or unwritable between any two of them.

InitAvail ==
    /\ InitProcess
    /\ txt_in = NoIn
    /\ txt_out = NoOut
    /\ dev_writable \in BOOLEAN

\* A thread calls __android_log_dev_available; prior is what calls that
\* have returned before this one starts have returned.
AvailCall(t) ==
    /\ av[t].pc = "idle"
    /\ av' = [av EXCEPT ![t] = [NoAv EXCEPT !.pc = "test",
                                            !.prior = returned_vals]]
    /\ UNCHANGED <<g_log_status, dev_writable, returned_vals, dispvars>>

\* if (g_log_status == kLogUninitialized), line 71.
AvailTest(t) ==
    /\ av[t].pc = "test"
    /\ av' = [av EXCEPT ![t].pc = IF g_log_status = "kLogUninitialized"
                                  THEN "access" ELSE "return"]
    /\ UNCHANGED <<g_log_status, dev_writable, returned_vals, dispvars>>

\* access("/dev/" LOGGER_LOG_MAIN, W_OK) == 0, line 72.
AvailAccess(t) ==
    /\ av[t].pc = "access"
    /\ av' = [av EXCEPT ![t].pc = "store", ![t].res = dev_writable,
                        ![t].probed = TRUE]
    /\ UNCHANGED <<g_log_status, dev_writable, returned_vals, dispvars>>

\* g_log_status = kLogAvailable / kLogNotAvailable, lines 73 and 75.
AvailStore(t) ==
    /\ av[t].pc = "store"
    /\ g_log_status' = IF av[t].res THEN "kLogAvailable"
                                    ELSE "kLogNotAvailable"
    /\ av' = [av EXCEPT ![t].pc = "return"]
    /\ UNCHANGED <<dev_writable, returned_vals, dispvars>>

\* return (g_log_status == kLogAvailable), line 78.
AvailReturn(t) ==
    /\ av[t].pc = "return"
    /\ LET v == IF g_log_status = "kLogAvailable" THEN 1 ELSE 0
       IN  /\ av' = [av EXCEPT ![t].pc = "returned", ![t].ret = v]
           /\ returned_vals' = returned_vals \cup {v}
    /\ UNCHANGED <<g_log_status, dev_writable, dispvars>>

\* The caller has taken the answer; the thread is ready for its next call.
AvailFinish(t) ==
    /\ av[t].pc = "returned"
    /\ av' = [av EXCEPT ![t] = NoAv]
    /\ UNCHANGED <<g_log_status, dev_writable, returned_vals, dispvars>>

\* The log device appears or goes away.
DevChange ==
    /\ dev_writable' = ~dev_writable
    /\ UNCHANGED <<g_log_status, returned_vals, av, dispvars>>

NextAvail ==
    \/ \E t \in Threads :
          \/ AvailCall(t)
          \/ AvailTest(t)
          \/ AvailAccess(t)
          \/ AvailStore(t)
          \/ AvailReturn(t)
          \/ AvailFinish(t)
    \/ DevChange

SpecAvail == InitAvail /\ [][NextAvail]_vars

\* ================================================================ claims

\* C1: however the threads' first calls interleave, the initialisation
\* block runs at most once: open() is called at most once per channel (at
\* most four times in all) and at most one thread is ever inside the block;
\* once the block has been run and the lock is free the dispatcher is
\* LiveKernel or Null; and a call that starts after the block has ended
\* finds that terminal state, which is still the dispatcher's state for as
\* long as the call runs.
C1_InitOnce ==
    /\ \A c \in Channels : opens[c] <= 1
    /\ Cardinality({t \in Threads : pc[t] \in BlockPcs}) <= 1
    /\ (log_init_lock = 0 /\ opens[LOG_ID_MAIN] > 0)
          => write_to_log \in {FnKernel, FnNull}
    /\ \A t \in Threads :
          (pc[t] # "idle" /\ entry[t].done)
             => /\ entry[t].fn \in {FnKernel, FnNull}
                /\ fn[t] = entry[t].fn
                /\ write_to_log = entry[t].fn

\* C1's case: all four channels were opened, a thread that found the lock
\* taken has waited and been through the re-check, and the other thread has
\* made a later call to its end.
C1_Witness ==
    /\ \A c \in Channels : opens[c] = 1
    /\ \E t, u \in Threads :
          /\ t # u
          /\ pc[t] = "returned" /\ entry[t].done /\ entry[t].fn = FnKernel
          /\ pc[u] = "init_call" /\ entry[u].fn = FnInit /\ tops[u] = 0

\* C2: a thread that has read the dispatcher without the lock and found
\* __write_to_log_kernel reads a registry whose entries are final: neither
\* the rollback to unopened nor the System-to-Main alias is still to come.
RollbackPending ==
    \E u \in Threads :
        /\ pc[u] \in {"init_cond", "close_main", "close_radio", "close_events",
                      "reset_main", "reset_radio", "reset_events"}
        /\ OpenFailed
        /\ \E c \in {LOG_ID_MAIN, LOG_ID_RADIO, LOG_ID_EVENTS} : log_fds[c] >= 0

AliasPending ==
    \E u \in Threads :
        /\ pc[u] \in {"init_cond", "sys_check"}
        /\ ~OpenFailed
        /\ log_fds[LOG_ID_SYSTEM] < 0

C2_NoPartialRegistry ==
    \A t \in Threads :
        (pc[t] = "kernel_check" /\ fn[t] = FnKernel)
           => (~RollbackPending /\ ~AliasPending)

\* C3: when open() failed for Main, Radio or Events, then once the block
\* has ended the dispatcher is Null and no handle that open() returned is
\* still open, System's included.
C3_NoHandleLeftOpen ==
    (InitComplete /\ \E c \in {LOG_ID_MAIN, LOG_ID_RADIO, LOG_ID_EVENTS} :
                        handle[c] = Unopened)
       => (write_to_log = FnNull /\ openFds = {})

\* C4: when open() succeeded for Main, Radio and Events and failed for
\* System, then in every state after the block has ended the dispatcher is
\* LiveKernel, System's registry entry is Main's handle, which is open, and
\* every writev of a call to System that started after the block ended was
\* made on Main's handle.
OnlySystemFailed ==
    /\ \A c \in {LOG_ID_MAIN, LOG_ID_RADIO, LOG_ID_EVENTS} : handle[c] >= 0
    /\ handle[LOG_ID_SYSTEM] = Unopened
    /\ opens[LOG_ID_SYSTEM] = 1

C4_SystemAliasesMain ==
    (InitComplete /\ OnlySystemFailed)
       => /\ write_to_log = FnKernel
          /\ log_fds[LOG_ID_SYSTEM] = handle[LOG_ID_MAIN]
          /\ handle[LOG_ID_MAIN] \in openFds
          /\ \A t \in Threads :
                (entry[t].done /\ req[t].log_id = LOG_ID_SYSTEM /\ wr[t].n > 0)
                   => (wr[t].fd = handle[LOG_ID_MAIN] /\ wr[t].open)

\* C4's case: only System failed to open, and a later write to System has
\* been accepted by the transport.
C4_Witness ==
    /\ InitComplete
    /\ OnlySystemFailed
    /\ \E t \in Threads :
          /\ pc[t] = "returned" /\ entry[t].done
          /\ req[t].log_id = LOG_ID_SYSTEM
          /\ wr[t].n > 0 /\ ret[t] > 0

\* C5: once the dispatcher is Null it stays Null and open() is never
\* called again; a call that reaches __write_to_log_null returns -1 and has
\* made no writev; and a call that found the dispatcher Null when it
\* started returns -1 having made no transport call at all.
C5_NullStatus ==
    \A t \in Threads :
        (pc[t] = "returned" /\ fn[t] = FnNull)
           => /\ ret[t] = -1
              /\ wr[t].n = 0
              /\ entry[t].fn = FnNull => tops[t] = 0

C5_NullIsPermanent ==
    /\ []C5_NullStatus
    /\ [][write_to_log = FnNull
            => (write_to_log' = FnNull /\ opens' = opens)]_vars

\* C5's case: a call of a valid channel that found the dispatcher Null has
\* returned.
C5_Witness ==
    \E t \in Threads :
        /\ pc[t] = "returned"
        /\ entry[t].fn = FnNull
        /\ req[t].log_id = LOG_ID_MAIN
        /\ write_to_log = FnNull

\* C6: a call whose channel is not one of the four returns the bad-channel
\* status, which is not the channel-unavailable status -1, whatever the
\* dispatcher was when the call started, having made no transport call and
\* no read of log_fds outside its bounds.
C6_BadChannel ==
    \A t \in Threads :
        (pc[t] = "returned" /\ req[t].op # "none" /\ req[t].log_id \notin Channels)
           => /\ ret[t] = EBADF
              /\ tops[t] = 0
              /\ ~oob[t]

\* C7: the pointer write_to_log changes only away from
\* __write_to_log_init: once it names another function it keeps naming it.
C7_Monotonic ==
    [][write_to_log' # write_to_log => write_to_log = FnInit]_vars

\* C8 as stated: when open() failed for Events alone, then after the block
\* has ended Main, Radio and System keep their own open handles and a later
\* write to one of them is forwarded to the transport on that handle.
OnlyEventsFailed ==
    /\ \A c \in {LOG_ID_MAIN, LOG_ID_RADIO, LOG_ID_SYSTEM} : handle[c] >= 0
    /\ handle[LOG_ID_EVENTS] = Unopened
    /\ opens[LOG_ID_EVENTS] = 1

LaterWriteTo(t, cs) ==
    /\ pc[t] = "returned"
    /\ entry[t].done
    /\ req[t].log_id \in cs

C8_EventsIndependent ==
    (InitComplete /\ OnlyEventsFailed)
       => /\ \A c \in {LOG_ID_MAIN, LOG_ID_RADIO, LOG_ID_SYSTEM} :
                log_fds[c] = handle[c] /\ handle[c] \in openFds
          /\ \A t \in Threads :
                LaterWriteTo(t, {LOG_ID_MAIN, LOG_ID_RADIO, LOG_ID_SYSTEM})
                   => (wr[t].n > 0 /\ wr[t].fd = handle[req[t].log_id])

\* C8 as the code has it: when open() failed for Events alone, the
\* dispatcher is Null after the block has ended, Main's and Radio's handles
\* are closed and their registry entries unopened, and a later write to
\* Main, Radio or System returns -1 without a writev.
C8_EventsFailureIsTotal ==
    (InitComplete /\ OnlyEventsFailed)
       => /\ write_to_log = FnNull
          /\ \A c \in {LOG_ID_MAIN, LOG_ID_RADIO} :
                log_fds[c] = Unopened /\ handle[c] \notin openFds
          /\ \A t \in Threads :
                LaterWriteTo(t, {LOG_ID_MAIN, LOG_ID_RADIO, LOG_ID_SYSTEM})
                   => (ret[t] = -1 /\ wr[t].n = 0)

\* C8's case: only Events failed to open, and a later write to System has
\* returned.
C8_Witness ==
    /\ InitComplete
    /\ OnlyEventsFailed
    /\ \E t \in Threads : LaterWriteTo(t, {LOG_ID_SYSTEM})

\* The bytes of an argument string, without its terminator; none for the
\* null pointer.
Chars(m) == IF m = NULLPTR THEN <<>> ELSE SubSeq(m, 1, Len(m) - 1)

\* The names and the prefixes __android_log_buf_write lists, lines 305-321.
DenyExact == {S_HTC_RIL, S_AT, S_GSM, S_STK, S_CDMA, S_PHONE, S_SMS, S_KINETO}
DenyPrefix == {S_RIL, S_IMS, S_KIPC, S_Kineto_lc, S_QCRIL, S_QC_RIL, S_QC_QMI,
               S_QC_ONCRPC, S_QC_DSI}

OnDenylist(chars) ==
    \/ chars \in DenyExact
    \/ \E p \in DenyPrefix :
          Len(chars) >= Len(p) /\ SubSeq(chars, 1, Len(p)) = p

\* C9: __android_log_buf_write hands over channel Radio and, as the tag,
\* the first 31 bytes of "use-Rlog/RLOG-" followed by the tag, then a NUL,
\* when the requested channel is not Radio and the tag is one of the listed
\* names or starts with one of the listed prefixes; in every other case it
\* hands over the requested channel and the tag as they came.
C9_Reroute ==
    (txt_in.op = "buf_write" /\ txt_out # NoOut)
       => LET chars == Chars(txt_in.tag)
              full == S_MARKER \o chars
          IN  IF txt_in.bufID # LOG_ID_RADIO /\ OnDenylist(chars)
              THEN /\ txt_out.log_id = LOG_ID_RADIO
                   /\ txt_out.vec[2]
                         = SubSeq(full, 1, Min(Len(full), 31)) \o <<NUL>>
                   /\ SubSeq(txt_out.vec[2], 1, 14) = S_MARKER
                   /\ Len(txt_out.vec[2]) <= 14 + 17 + 1
              ELSE /\ txt_out.log_id = txt_in.bufID
                   /\ txt_out.vec[2] = chars \o <<NUL>>

\* C9's case: a listed tag of more than 17 bytes, requested on Main, has
\* been rerouted to Radio with its rendered tag cut to 31 bytes.
C9_Witness ==
    /\ txt_in.op = "buf_write"
    /\ txt_in.bufID = LOG_ID_MAIN
    /\ Len(Chars(txt_in.tag)) > 17
    /\ txt_out # NoOut
    /\ txt_out.log_id = LOG_ID_RADIO
    /\ Len(txt_out.vec[2]) = 32

\* C10: both text entry points hand over exactly three iovecs: the one
\* priority byte; the tag handed over with its NUL and no NUL before it,
\* which is the caller's tag unless the call was rerouted, the empty string
\* for an absent tag, and the marker and tag cut to 31 bytes when rerouted;
\* and the whole message with its NUL.
C10_TextFraming ==
    (txt_out # NoOut)
       => LET v == txt_out.vec
              tagc == Chars(txt_in.tag)
              msgc == Chars(txt_in.msg)
              rerouted == /\ txt_out.log_id = LOG_ID_RADIO
                          /\ txt_in.bufID # LOG_ID_RADIO
          IN  /\ Len(v) = 3
              /\ v[1] = <<txt_in.prio>>
              /\ Len(v[2]) >= 1
              /\ v[2][Len(v[2])] = NUL
              /\ \A i \in 1..(Len(v[2]) - 1) : v[2][i] # NUL
              /\ ~rerouted => v[2] = tagc \o <<NUL>>
              /\ rerouted => Len(v[2]) = Min(14 + Len(tagc), 31) + 1
              /\ txt_in.tag = NULLPTR => v[2] = <<NUL>>
              /\ v[3] = msgc \o <<NUL>>

\* C10's case: priority 4, tag "X" and message "hello" have been framed
\* as segments of 1, 2 and 6 bytes.
C10_Witness ==
    /\ txt_in.op = "write"
    /\ txt_in.prio = 4
    /\ txt_in.tag = TagX
    /\ txt_in.msg = MsgHello
    /\ txt_out # NoOut
    /\ <<Len(txt_out.vec[1]), Len(txt_out.vec[2]), Len(txt_out.vec[3])>>
          = <<1, 2, 6>>

\* C11: __android_log_assert never returns to its caller.  Whatever the
\* dispatcher's state and whatever the write's status, the call makes its
\* one write of a text record at priority fatal (three segments, the first
\* the byte 7; at most one writev that is not the retry of an interrupted
\* one) and then ends the process abnormally: the thread leaves the point
\* where the write has returned only into the trap, the process is aborted
\* only by a thread whose write has returned, and a negative status of the
\* write does not keep the trap from being taken.
C11_TrapInv ==
    /\ aborted => \E t \in Threads : pc[t] = "trapped"
    /\ \A t \in Threads :
          /\ req[t].op = "assert" => pc[t] # "idle"
          /\ pc[t] = "trapped"
                => /\ aborted
                   /\ req[t].op = "assert"
                   /\ Len(req[t].vec) = 3
                   /\ req[t].vec[1] = <<ANDROID_LOG_FATAL>>
                   /\ wr[t].n - eintr[t] <= 1
                   /\ fn[t] = FnKernel => wr[t].n >= 1
                   /\ fn[t] = FnNull => (wr[t].n = 0 /\ ret[t] = -1)

C11_AssertNeverReturns ==
    /\ []C11_TrapInv
    /\ [][\A t \in Threads :
             /\ (pc[t] = "returned" /\ req[t].op = "assert" /\ pc'[t] # pc[t])
                   => (pc'[t] = "trapped" /\ aborted')
             /\ (pc'[t] = "trapped" /\ pc[t] # "trapped")
                   => (pc[t] = "returned" /\ ret'[t] = ret[t])]_vars
    /\ [][(aborted' /\ ~aborted)
             => \E t \in Threads : pc[t] = "returned" /\ pc'[t] = "trapped"]_vars

\* C11's case: the dispatcher is Null, the write of the assertion's record
\* has failed with -1, and the process has been aborted all the same.
C11_Witness ==
    /\ aborted
    /\ write_to_log = FnNull
    /\ \E t \in Threads :
          pc[t] = "trapped" /\ fn[t] = FnNull /\ ret[t] = -1

\* The bytes of s that fit a buffer of LOG_BUF_SIZE bytes with its NUL.
CutToBuf(s) == SubSeq(s, 1, Min(Len(s), LOG_BUF_SIZE - 1))

\* C12: the message __android_log_assert logs is what the format rendered
\* into the buffer when a format is given, with or without a condition;
\* otherwise it is exactly "Assertion failed: " followed by the condition
\* text when a condition is given; otherwise it is exactly "Unspecified
\* assertion failed".
C12_AssertMessage ==
    (txt_in.op = "assert" /\ txt_out # NoOut)
       => LET m == txt_out.vec[3]
          IN  /\ txt_in.fmt # NULLPTR
                    => m = CStr(CutToBuf(Chars(txt_in.fmt)))
              /\ (txt_in.fmt = NULLPTR /\ txt_in.cond # NULLPTR)
                    => m = CStr(S_ASSERTION_FAILED \o Chars(txt_in.cond))
              /\ (txt_in.fmt = NULLPTR /\ txt_in.cond = NULLPTR)
                    => m = CStr(S_UNSPECIFIED)

\* C12 as the code has it: as C12_AssertMessage, but "Assertion failed: "
\* and the condition text are cut to the first 1023 bytes, as the rendered
\* format is; the record is a text record at priority fatal.
C12_AssertMessageCut ==
    (txt_in.op = "assert" /\ txt_out # NoOut)
       => LET m == txt_out.vec[3]
          IN  /\ Len(txt_out.vec) = 3
              /\ txt_out.vec[1] = <<ANDROID_LOG_FATAL>>
              /\ txt_in.fmt # NULLPTR
                    => m = CStr(CutToBuf(Chars(txt_in.fmt)))
              /\ (txt_in.fmt = NULLPTR /\ txt_in.cond # NULLPTR)
                    => m = CStr(CutToBuf(S_ASSERTION_FAILED
                                             \o Chars(txt_in.cond)))
              /\ (txt_in.fmt = NULLPTR /\ txt_in.cond = NULLPTR)
                    => m = CStr(S_UNSPECIFIED)

\* C12's case: no format, a condition of 1006 bytes, one more than fits
\* after "Assertion failed: ", and the message handed over has 1023 bytes
\* and its NUL.
C12_Witness ==
    /\ txt_in.op = "assert"
    /\ txt_in.fmt = NULLPTR
    /\ Len(Chars(txt_in.cond)) = LOG_BUF_SIZE - Len(S_ASSERTION_FAILED)
    /\ txt_out # NoOut
    /\ Len(txt_out.vec[3]) = LOG_BUF_SIZE

\* C13: __android_log_dev_available caches its answer: once a call has
\* returned a value, every call that starts afterwards returns that same
\* value, and without probing the device again, also when calls run
\* concurrently and the device changes between probes.
C13_Cached ==
    \A t \in Threads :
        av[t].pc = "returned"
           => /\ \A v \in av[t].prior : av[t].ret = v
              /\ av[t].prior # {} => ~av[t].probed

\* C14: the write loop of __write_to_log_kernel calls log_writev again for
\* as long as the call is interrupted and stops at the first attempt that
\* succeeds or fails otherwise: while it is in the loop after an attempt,
\* every attempt so far was interrupted; when it has returned, the status
\* is exactly the result of the last attempt, that attempt was not an
\* interrupted one (Interrupted never reaches the caller) and it is the
\* only one that was not (a failure of another kind is not retried).
C14_RetryOnlyInterrupted ==
    \A t \in Threads :
        wr[t].n > 0
           => /\ pc[t] = "kernel_writev"
                    => /\ wr[t].res < 0 /\ wr[t].errno = "EINTR"
                       /\ wr[t].n = eintr[t]
              /\ pc[t] \in {"returned", "trapped"}
                    => /\ ret[t] = wr[t].res
                       /\ ~(wr[t].res < 0 /\ wr[t].errno = "EINTR")
                       /\ wr[t].n = eintr[t] + 1
              /\ pc[t] \in {"kernel_writev", "returned", "trapped"}

\* C14's case: in LiveKernel a write's first attempt was interrupted, the
\* call tried again and returns the byte count of the attempt that went
\* through; and another call has returned the failure of an attempt that
\* was not interrupted, having made that one attempt only.
C14_Witness ==
    /\ write_to_log = FnKernel
    /\ \E t, u \in Threads :
          /\ pc[t] = "returned" /\ entry[t].done
          /\ req[t].log_id \in Channels
          /\ eintr[t] >= 1 /\ wr[t].n = eintr[t] + 1
          /\ ret[t] = TotalLen(req[t].vec)
          /\ pc[u] = "returned" /\ entry[u].done
          /\ wr[u].n = 1 /\ wr[u].errno = "EIO" /\ ret[u] = -1

\* The statements between pthread_mutex_lock and pthread_mutex_unlock.
LockPcs == BlockPcs \cup {"init_check", "init_unlock"}

C16_CloseOnlyOpened ==
    /\ \A i \in DOMAIN closeCalls :
          /\ closeCalls[i] # Unopened
          /\ closeCalls[i] \in {handle[c] : c \in {LOG_ID_MAIN, LOG_ID_RADIO,
                                                  LOG_ID_EVENTS}}
    /\ \A i, j \in DOMAIN closeCalls : i # j => closeCalls[i] # closeCalls[j]

\* C17: every record goes to the transport as one vectored write that
\* carries all its segments in framing order: each log_writev of a call is
\* given the whole iovec array the entry point built (three segments for a
\* text record, tag and payload for an event, tag, type and payload for a
\* typed event), at most one log_writev of a call is not the retry of an
\* interrupted one, every retry has the same segments and the same handle
\* as the attempt before it, and event records are addressed to Events.
C17_OneWholeWritev ==
    \A t \in Threads :
        /\ wr[t].n > 0
              => /\ wr[t].vec = req[t].vec
                 /\ wr[t].same
                 /\ wr[t].fd = log_fd[t]
                 /\ wr[t].n - eintr[t] <= 1
        /\ req[t].op \in {"write", "buf_write", "assert"}
              => /\ Len(req[t].vec) = 3
                 /\ Len(req[t].vec[1]) = 1
        /\ req[t].op = "bwrite"
              => /\ req[t].log_id = LOG_ID_EVENTS
                 /\ req[t].vec = << Int32Bytes(7), EventPayload >>
        /\ req[t].op = "btwrite"
              => /\ req[t].log_id = LOG_ID_EVENTS
                 /\ req[t].vec = << Int32Bytes(7), <<0>>, EventPayload >>
        /\ (req[t].op \in {"bwrite", "btwrite"} /\ entry[t].done
               /\ wr[t].n > 0)
              => wr[t].fd = handle[LOG_ID_EVENTS]

\* C17's case: a typed event whose first log_writev was interrupted has
\* been written again, with its three segments, to the handle of Events,
\* and the transport has taken its seven bytes.
C17_Witness ==
    \E t \in Threads :
        /\ req[t].op = "btwrite"
        /\ pc[t] = "returned" /\ entry[t].done
        /\ eintr[t] >= 1 /\ wr[t].n = eintr[t] + 1
        /\ Len(wr[t].vec) = 3
        /\ wr[t].fd = handle[LOG_ID_EVENTS] /\ wr[t].open
        /\ ret[t] = 7

\* C18: under every interleaving of writers with the initialisation, each
\* log_writev of a call on a channel of the registry is made on a handle
\* that is open at that moment: never on one the rollback has closed, and
\* never on the unopened marker -1.
C18_WritevOnOpenHandle ==
    \A t \in Threads :
        (wr[t].n > 0 /\ req[t].log_id \in Channels)
           => (wr[t].fd # Unopened /\ wr[t].open)

\* C19: __android_log_write(prio, tag, msg) and __android_log_buf_write(
\* LOG_ID_MAIN, prio, tag, msg) make the same reroute decision for every
\* tag: they hand the dispatcher the same channel and the same tag segment.
C19_SameReroute ==
    (txt_out # NoOut /\ (txt_in.op = "write" \/ txt_in.bufID = LOG_ID_MAIN))
       => LET w == AndroidLogWrite(txt_in.prio, txt_in.tag, txt_in.msg)
              b == AndroidLogBufWrite(LOG_ID_MAIN, txt_in.prio, txt_in.tag,
                                      txt_in.msg)
          IN  /\ txt_out \in {w, b}
              /\ w.log_id = b.log_id
              /\ w.vec[2] = b.vec[2]

\* C20: the sign of the status tells success from failure: a status that
\* is not negative is the byte count the transport took for the record,
\* and every failure (a channel outside the registry, the channel
\* unavailable, a failure of the transport) is a negative status.
C20_StatusSign ==
    \A t \in Threads :
        pc[t] \in {"returned", "trapped"}
           => /\ ret[t] >= 0
                    => /\ wr[t].n > 0
                       /\ wr[t].errno = "none"
                       /\ ret[t] = TotalLen(req[t].vec)
              /\ (wr[t].n = 0 \/ wr[t].res < 0) => ret[t] < 0

====
